---- MODULE Spec2Model ----
(***************************************************************************)
(* Model of fix_chapters.py, the "Complete Ambient Indicator Cleaner v2".  *)
(*                                                                         *)
(* A document text is a sequence of tokens.  Every token stands for one    *)
(* concrete piece of HTML; the regular expressions of the program are      *)
(* translated to operators on token sequences that do to the sequence what *)
(* re.sub / re.search do to the concatenated strings.                      *)
(*                                                                         *)
(*   token    text it stands for                                           *)
(*   -------  ---------------------------------------------------------    *)
(*   body     <body>                                                       *)
(*   main     <main>                                                       *)
(*   bg       <div class="bg-gradient">                                    *)
(*   close    </div>                                                       *)
(*   bar      <div class="w-1 bg-purple-500 h-3 animate-pulse">            *)
(*   leaf     <div class="w-1 bg-red-500 h-3">                             *)
(*   label    <span>Ambient: Victory</span>                                *)
(*   caps     <span class="text-xs font-ui tracking-widest">Victory</span> *)
(*   flex     <div class="flex gap-1 h-3 items-end">                       *)
(*   fixed    <div class="fixed bottom-4 right-4 z-50">                    *)
(*   hide     <div class="reader-hide fixed">                              *)
(*   nl       one newline                                                  *)
(*   sp       two spaces                                                   *)
(*   word     ambient            (the plain word, in prose)                *)
(*   para     <p>Chapter</p>     (a narrative element)                     *)
(***************************************************************************)
EXTENDS Integers, Sequences, FiniteSets, TLC

Tokens ==
    {"body", "main", "bg", "close", "bar", "leaf", "label", "caps",
     "flex", "fixed", "hide", "nl", "sp", "word", "para"}

\* \s matches these tokens, and only these.
Whitespace == {"nl", "sp"}

\* Longest text, in tokens, of the documents the text specifications draw.
MaxTextLen == 3

(***************************************************************************)
(* Which tokens each tag pattern of the program matches.                   *)
(***************************************************************************)
\* <div[^>]*class="[^"]*fixed\s+bottom-\d+\s+right-\d+[^"]*"[^>]*>
FixedBottomRightTags == {"fixed"}
\* <div[^>]*class="[^"]*fixed[^"]*bottom[^"]*right[^"]*z-50[^"]*"[^>]*>
FixedZ50Tags == {"fixed"}
\* <div[^>]*class="[^"]*reader-hide[^"]*fixed[^"]*"[^>]*>
ReaderHideFixedTags == {"hide"}
\* <div[^>]*class="[^"]*fixed[^"]*reader-hide[^"]*"[^>]*>
FixedReaderHideTags == {}
\* <div\s+class="w-1\s+bg-(?:purple|...)-\d+\s+h-\d+(?:\s+animate-pulse)?(?:\s+delay-\d+)?"[^>]*>
ColorBarTags == {"bar", "leaf"}
\* <div\s+class="w-1[^"]*bg-[^"]*animate-pulse[^"]*"[^>]*>
PulseBarTags == {"bar"}
\* <div\s+class="[^"]*animate-pulse[^"]*w-1[^"]*"[^>]*>
PulseFirstBarTags == {}
\* <span[^>]*>[^<]*Ambient\s*:\s*[^<]*</span>
AmbientSpans == {"label"}
\* <span[^>]*class="[^"]*text-xs[^"]*font-ui[^"]*tracking-widest[^"]*"[^>]*>[^<]*</span>
TrackingSpans == {"caps"}
\* <span[^>]*class="[^"]*font-ui[^"]*text-neutral-400[^"]*uppercase[^"]*"[^>]*>[^<]*</span>
UppercaseSpans == {}
\* <div\s+class="[^"]*flex\s+gap-1\s+h-3\s+items-end[^"]*"[^>]*>
FlexItemsEndTags == {"flex"}
\* <div\s+class="flex\s+gap-1[^"]*"[^>]*>
FlexGapTags == {"flex"}
\* <div[^>]*class="w-1[^"]*"[^>]*>   and   <div\s+class="w-1   and   <div[^>]*class="w-1
W1Tags == {"bar", "leaf"}
\* <span[^>]*>[^<]*</span>
AnySpans == {"label", "caps"}
\* <div class="bg-gradient">  and  <main
MainMarkers == {"bg", "main"}

(***************************************************************************)
(* Helpers shared by the patterns.                                         *)
(***************************************************************************)
\* \s* from position i: the first position at or after i that holds no whitespace.
RECURSIVE SkipWs(_, _)
SkipWs(s, i) ==
    IF i <= Len(s) /\ s[i] \in Whitespace THEN SkipWs(s, i + 1) ELSE i

\* (?:</div>\s*)* from position i.
RECURSIVE SkipCloses(_, _)
SkipCloses(s, i) ==
    IF i <= Len(s) /\ s[i] = "close" THEN SkipCloses(s, SkipWs(s, i + 1)) ELSE i

\* (?:<span[^>]*>[^<]*</span>\s*)* from position i.
RECURSIVE SkipSpans(_, _)
SkipSpans(s, i) ==
    IF i <= Len(s) /\ s[i] \in AnySpans THEN SkipSpans(s, SkipWs(s, i + 1)) ELSE i

\* (?:<div[^>]*class="w-1[^"]*"[^>]*></div>\s*)* from position i: the closing
\* tag follows the opening tag with nothing between.
RECURSIVE SkipWidgets(_, _)
SkipWidgets(s, i) ==
    IF i + 1 <= Len(s) /\ s[i] \in W1Tags /\ s[i + 1] = "close"
    THEN SkipWidgets(s, SkipWs(s, i + 2))
    ELSE i

\* .*?</div>\s*  (two = FALSE)  or  .*?</div>\s*</div>\s*  (two = TRUE) from
\* position i: the position after the match, or 0 when there is none.
RECURSIVE BlockEnd(_, _, _)
BlockEnd(s, i, two) ==
    IF i > Len(s) THEN 0
    ELSE IF s[i] # "close" THEN BlockEnd(s, i + 1, two)
    ELSE LET j == SkipWs(s, i + 1) IN
         IF ~two THEN j
         ELSE IF j <= Len(s) /\ s[j] = "close" THEN SkipWs(s, j + 1)
         ELSE BlockEnd(s, i + 1, two)

\* re.sub(<opens>.*?</div>\s*[</div>\s*], '', s) from position i.
RECURSIVE SubBlock(_, _, _, _)
SubBlock(s, i, opens, two) ==
    IF i > Len(s) THEN <<>>
    ELSE LET e == IF s[i] \in opens THEN BlockEnd(s, i + 1, two) ELSE 0 IN
         IF e # 0 THEN SubBlock(s, e, opens, two)
         ELSE <<s[i]>> \o SubBlock(s, i + 1, opens, two)

\* re.sub(<opens>\s*</div>\s*, '', s) from position i.
RECURSIVE SubEmptyDiv(_, _, _)
SubEmptyDiv(s, i, opens) ==
    IF i > Len(s) THEN <<>>
    ELSE LET j == SkipWs(s, i + 1) IN
         IF s[i] \in opens /\ j <= Len(s) /\ s[j] = "close"
         THEN SubEmptyDiv(s, SkipWs(s, j + 1), opens)
         ELSE <<s[i]>> \o SubEmptyDiv(s, i + 1, opens)

\* re.sub(<spans>\s*, '', s) from position i.
RECURSIVE SubSpan(_, _, _)
SubSpan(s, i, spans) ==
    IF i > Len(s) THEN <<>>
    ELSE IF s[i] \in spans THEN SubSpan(s, SkipWs(s, i + 1), spans)
    ELSE <<s[i]>> \o SubSpan(s, i + 1, spans)

\* \s*</div>\s* n times from position i: the position after them, or 0.
RECURSIVE OrphanEnd(_, _, _)
OrphanEnd(s, i, n) ==
    IF n = 0 THEN i
    ELSE LET j == SkipWs(s, i) IN
         IF j <= Len(s) /\ s[j] = "close" THEN OrphanEnd(s, SkipWs(s, j + 1), n - 1)
         ELSE 0

\* re.sub((<body[^>]*>)(\s*</div>\s*){n}, repl, s) from position i.
RECURSIVE SubOrphan(_, _, _, _)
SubOrphan(s, i, n, repl) ==
    IF i > Len(s) THEN <<>>
    ELSE LET e == IF s[i] = "body" THEN OrphanEnd(s, i + 1, n) ELSE 0 IN
         IF e # 0 THEN repl \o SubOrphan(s, e, n, repl)
         ELSE <<s[i]>> \o SubOrphan(s, i + 1, n, repl)

(***************************************************************************)
(* clean_ambient_completely, step by step.                                 *)
(***************************************************************************)
\* STEP 1: patterns_full_block, each re.sub'ed in turn.
Step1(s) ==
    LET a == SubBlock(s, 1, FixedBottomRightTags, TRUE)
        b == SubBlock(a, 1, FixedZ50Tags, FALSE)
        c == SubBlock(b, 1, ReaderHideFixedTags, FALSE)
    IN  SubBlock(c, 1, FixedReaderHideTags, FALSE)

\* STEP 2: animation_bar_patterns.
Step2(s) ==
    LET a == SubEmptyDiv(s, 1, ColorBarTags)
        b == SubEmptyDiv(a, 1, PulseBarTags)
    IN  SubEmptyDiv(b, 1, PulseFirstBarTags)

\* STEP 3: orphan_pattern1, replaced by r'\1\n'.
Step3(s) == SubOrphan(s, 1, 1, <<"body", "nl">>)

\* STEP 4: ambient_span_patterns.
Step4(s) ==
    LET a == SubSpan(s, 1, AmbientSpans)
        b == SubSpan(a, 1, TrackingSpans)
    IN  SubSpan(b, 1, UppercaseSpans)

\* What the loop of step 5 replaces a match of a body pattern with: the test
\* '\\1' in pattern looks for a backslash-1 in the PATTERN, which holds a
\* group but no backreference, so the else branch runs and the match, the
\* body tag included, is replaced by ''.
BodyOrphanReplacement == <<>>

\* STEP 5: orphan_container_patterns.
Step5(s) ==
    LET a == SubEmptyDiv(s, 1, FlexItemsEndTags)
        b == SubEmptyDiv(a, 1, FlexGapTags)
        c == SubOrphan(b, 1, 2, BodyOrphanReplacement)
    IN  SubOrphan(c, 1, 1, BodyOrphanReplacement)

\* body_cleanup_pattern from a body tag at position i: the position of the
\* main-content marker that ends the match, or 0.
CleanupEnd(s, i) ==
    LET j == SkipCloses(s, SkipSpans(s, SkipCloses(s, SkipWidgets(s, SkipWs(s, i + 1))))) IN
    IF j <= Len(s) /\ s[j] \in MainMarkers THEN j ELSE 0

\* STEP 6: re.sub(body_cleanup_pattern, r'\1\n  \2', s) from position i.
RECURSIVE Step6From(_, _)
Step6From(s, i) ==
    IF i > Len(s) THEN <<>>
    ELSE LET e == IF s[i] = "body" THEN CleanupEnd(s, i) ELSE 0 IN
         IF e # 0 THEN <<"body", "nl", "sp", s[e]>> \o Step6From(s, e + 1)
         ELSE <<s[i]>> \o Step6From(s, i + 1)

Step6(s) == Step6From(s, 1)

\* [^<]*(?:<[^>]*>[^<]*)*?(\s*<(?:div\s+class="bg-gradient"|main)) from
\* position i: the position of the first main-content marker, or 0.
RECURSIVE FirstMarker(_, _)
FirstMarker(s, i) ==
    IF i > Len(s) THEN 0
    ELSE IF s[i] \in MainMarkers THEN i
    ELSE FirstMarker(s, i + 1)

\* re.sub(body_pattern, clean_body_section, s) from position i.
RECURSIVE SubBodySection(_, _)
SubBodySection(s, i) ==
    IF i > Len(s) THEN <<>>
    ELSE LET e == IF s[i] = "body" THEN FirstMarker(s, i + 1) ELSE 0 IN
         IF e # 0 THEN <<"body", "nl", "sp", s[e]>> \o SubBodySection(s, e + 1)
         ELSE <<s[i]>> \o SubBodySection(s, i + 1)

\* re.search(r'<body[^>]*>\s*<div\s+class="w-1', s)
WidgetAfterBody(s) ==
    \E i \in 1..Len(s) :
        /\ s[i] = "body"
        /\ SkipWs(s, i + 1) <= Len(s)
        /\ s[SkipWs(s, i + 1)] \in W1Tags

\* STEP 7: body_pattern, only when a leaf widget follows the body tag.
Step7(s) == IF WidgetAfterBody(s) THEN SubBodySection(s, 1) ELSE s

\* The number of newlines in s[i..e].
RECURSIVE Newlines(_, _, _)
Newlines(s, i, e) ==
    IF i > e THEN 0
    ELSE (IF s[i] = "nl" THEN 1 ELSE 0) + Newlines(s, i + 1, e)

\* The last newline in s[i..e] (there is one).
RECURSIVE LastNewline(_, _, _)
LastNewline(s, i, e) ==
    IF s[e] = "nl" \/ e <= i THEN e ELSE LastNewline(s, i, e - 1)

\* re.sub(\n(\s*\n){k-1}, '\n\n', s) from position i: a newline that has
\* k - 1 more newlines in the whitespace after it matches up to the last one.
RECURSIVE SubBlankLines(_, _, _)
SubBlankLines(s, i, k) ==
    IF i > Len(s) THEN <<>>
    ELSE LET e == SkipWs(s, i) - 1 IN
         IF s[i] = "nl" /\ Newlines(s, i, e) >= k
         THEN <<"nl", "nl">> \o SubBlankLines(s, LastNewline(s, i, e) + 1, k)
         ELSE <<s[i]>> \o SubBlankLines(s, i + 1, k)

\* STEP 8: the two blank-line substitutions.
Step8(s) == SubBlankLines(SubBlankLines(s, 1, 4), 1, 3)

\* clean_ambient_completely(content)[0]
CleanText(s) == Step8(Step7(Step6(Step5(Step4(Step3(Step2(Step1(s))))))))

\* clean_ambient_completely(content): (content, content != original_content)
clean_ambient_completely(s) ==
    [content |-> CleanText(s), modified |-> CleanText(s) # s]

(***************************************************************************)
(* verify_file's four checks on a text that was read.                      *)
(***************************************************************************)
\* 'Ambient:' in content or 'Ambient :' in content
HasAmbientColon(s) == \E i \in 1..Len(s) : s[i] = "label"

\* re.search(r'<div[^>]*class="w-1[^"]*animate-pulse', content)
HasAnimationBar(s) == \E i \in 1..Len(s) : s[i] = "bar"

\* re.search(r'<body[^>]*>\s*</div>', content)
HasOrphanClose(s) ==
    \E i \in 1..Len(s) :
        /\ s[i] = "body"
        /\ SkipWs(s, i + 1) <= Len(s)
        /\ s[SkipWs(s, i + 1)] = "close"

\* re.search(r'<body[^>]*>\s*<div[^>]*class="w-1', content)
HasOrphanWidget(s) == WidgetAfterBody(s)

\* The four checks as an if/elif chain: the first match is the only issue.
VerifyTextFirstOnly(s) ==
    IF HasAmbientColon(s) THEN <<"Contains 'Ambient:'">>
    ELSE IF HasAnimationBar(s) THEN <<"Contains animation bars">>
    ELSE IF HasOrphanClose(s) THEN <<"Has orphaned </div> after body">>
    ELSE IF HasOrphanWidget(s) THEN <<"Has orphaned div after body">>
    ELSE <<>>

VerifyText(s) ==
    (IF HasAmbientColon(s) THEN <<"Contains 'Ambient:'">> ELSE <<>>)
    \o (IF HasAnimationBar(s) THEN <<"Contains animation bars">> ELSE <<>>)
    \o (IF HasOrphanClose(s) THEN <<"Has orphaned </div> after body">> ELSE <<>>)
    \o (IF HasOrphanWidget(s) THEN <<"Has orphaned div after body">> ELSE <<>>)


(***************************************************************************)
(* File names and the chapter selector.  A file name is its stem, a        *)
(* sequence of characters, and its extension: [stem |-> <<"7","-","b">>,   *)
(* ext |-> "html"] is 7-b.html.                                            *)
(***************************************************************************)
START_CHAPTER == 1
END_CHAPTER == 378

\* get_chapter_number's None: chapter numbers are never negative.
None == -1

Digits == {"0", "1", "2", "3", "4", "5", "6", "7", "8", "9"}

\* int() of one digit.
DigitValue(c) ==
    CASE c = "0" -> 0 [] c = "1" -> 1 [] c = "2" -> 2 [] c = "3" -> 3
      [] c = "4" -> 4 [] c = "5" -> 5 [] c = "6" -> 6 [] c = "7" -> 7
      [] c = "8" -> 8 [] c = "9" -> 9

\* (\d+) at the start of the name: how many digits it takes.
RECURSIVE LeadingDigits(_, _)
LeadingDigits(stem, i) ==
    IF i <= Len(stem) /\ stem[i] \in Digits THEN LeadingDigits(stem, i + 1) ELSE i - 1

\* int(match.group(1)) of the first k characters.
RECURSIVE IntOf(_, _)
IntOf(stem, k) ==
    IF k = 0 THEN 0 ELSE 10 * IntOf(stem, k - 1) + DigitValue(stem[k])

\* The separator re.match(r'^(\d+)-', filename) wants after the digits.
Separator == "-"

get_chapter_number(name) ==
    LET k == LeadingDigits(name.stem, 1) IN
    IF k >= 1 /\ k + 1 <= Len(name.stem) /\ name.stem[k + 1] = Separator
    THEN IntOf(name.stem, k)
    ELSE None

\* should_process_file without its range test.
should_process_file_any_chapter(name) ==
    get_chapter_number(name) # None

should_process_file(name) ==
    LET chapter_num == get_chapter_number(name) IN
    IF chapter_num = None THEN FALSE
    ELSE START_CHAPTER <= chapter_num /\ chapter_num <= END_CHAPTER

\* chapters_dir.glob("*.html")
GlobHtml(names) == {f \in names : f.ext = "html"}

\* The key target_files is sorted by.
SortKey(name) ==
    IF get_chapter_number(name) = None \/ get_chapter_number(name) = 0
    THEN 0
    ELSE get_chapter_number(name)

\* list.sort(key=...) of the selected files: ascending by key; files with
\* the same key stay in the order the directory listing gave them, which is
\* any order.
SortedTargets(names) ==
    {t \in [1..Cardinality(names) -> names] :
        /\ \A i, j \in DOMAIN t : i # j => t[i] # t[j]
        /\ \A i, j \in DOMAIN t : i < j => SortKey(t[i]) <= SortKey(t[j])}

(***************************************************************************)
(* process_file and verify_file.  An open() may raise at any call:         *)
(* read_fails and write_fails say whether the call's read or write does.   *)
(* A write that raises leaves the file as it was.                          *)
(***************************************************************************)
\* The substrings process_file looks for, and the tokens that hold them.
HasSubstring(s, tokens) == \E i \in 1..Len(s) : s[i] \in tokens

has_ambient(s) ==
    \/ HasSubstring(s, {"label"})                         \* 'Ambient'
    \/ HasSubstring(s, {"word"})                          \* 'ambient'
    \/ /\ HasSubstring(s, {"bar"})                        \* 'animate-pulse'
       /\ HasSubstring(s, {"bar", "leaf"})                \* 'w-1'
    \/ HasSubstring(s, {"bar"})                           \* 'bg-purple-500 h-'
    \/ HasSubstring(s, {})                                \* 'bg-green-500 h-'
    \/ HasSubstring(s, {})                                \* 'bg-cyan-500 h-'

\* What one call did: the outcome returned, the file's content after it, and
\* how often it read the file, wrote it and ran the pipeline.
Effect(outcome, content, reads, calls, writes) ==
    [outcome |-> outcome, content |-> content, reads |-> reads,
     calls |-> calls, writes |-> writes]

\* process_file running the pipeline before it looks for ambient indicators.
process_file_cleans_first(name, content, read_fails, write_fails) ==
    IF get_chapter_number(name) = None THEN Effect("skipped", content, 0, 0, 0)
    ELSE IF read_fails THEN Effect("error", content, 0, 0, 0)
    ELSE LET new == clean_ambient_completely(content) IN
         IF ~new.modified
         THEN Effect(IF has_ambient(content) THEN "no_changes" ELSE "already_clean",
                     content, 1, 1, 0)
         ELSE IF write_fails THEN Effect("error", content, 1, 1, 0)
         ELSE Effect(IF has_ambient(content) THEN "cleaned" ELSE "already_clean",
                     new.content, 1, 1, 1)

\* process_file writing and reporting cleaned whatever the modified flag says.
process_file_ignores_modified(name, content, read_fails, write_fails) ==
    IF get_chapter_number(name) = None THEN Effect("skipped", content, 0, 0, 0)
    ELSE IF read_fails THEN Effect("error", content, 0, 0, 0)
    ELSE IF ~has_ambient(content) THEN Effect("already_clean", content, 1, 0, 0)
    ELSE LET new == clean_ambient_completely(content) IN
         IF write_fails THEN Effect("error", content, 1, 1, 0)
         ELSE Effect("cleaned", new.content, 1, 1, 1)

process_file(name, content, read_fails, write_fails) ==
    IF get_chapter_number(name) = None THEN Effect("skipped", content, 0, 0, 0)
    ELSE IF read_fails THEN Effect("error", content, 0, 0, 0)
    ELSE IF ~has_ambient(content) THEN Effect("already_clean", content, 1, 0, 0)
    ELSE LET new == clean_ambient_completely(content) IN
         IF ~new.modified THEN Effect("no_changes", content, 1, 1, 0)
         ELSE IF write_fails THEN Effect("error", content, 1, 1, 0)
         ELSE Effect("cleaned", new.content, 1, 1, 1)

verify_file(content, read_fails) ==
    IF read_fails THEN <<"Error reading file">> ELSE VerifyText(content)

\* A re-clean that runs the pipeline again while issues remain.
reclean_until_stable(content) ==
    LET first == clean_ambient_completely(content) IN
    IF VerifyText(first.content) = <<>> THEN <<first>>
    ELSE <<first, clean_ambient_completely(first.content)>>

\* The pipeline invocations of one pass-2 re-clean.
reclean(content) == <<clean_ambient_completely(content)>>

\* The body of main's second loop for one file.  raised: an exception left
\* the loop (and main).  verified: what each verify_file call returned.
\* idle: the file was written with the text that was read from it.
Recheck(raised, content, verified, reads, calls, writes, idle) ==
    [raised |-> raised, content |-> content, verified |-> verified,
     reads |-> reads, calls |-> calls, writes |-> writes, idle |-> idle]

\* The second loop without its second verify_file call: the issues found
\* before the re-clean are the ones kept.
verify_and_reclean_stale(content, verify_fails, read_fails, write_fails, reverify_fails) ==
    LET issues == verify_file(content, verify_fails) IN
    IF issues = <<>> THEN Recheck(FALSE, content, <<issues>>, 0, 0, 0, FALSE)
    ELSE IF read_fails THEN Recheck(TRUE, content, <<issues>>, 0, 0, 0, FALSE)
    ELSE LET runs == reclean(content)
             new_content == runs[Len(runs)].content
         IN  IF write_fails
             THEN Recheck(TRUE, content, <<issues>>, 1, Len(runs), 0, FALSE)
             ELSE Recheck(FALSE, new_content, <<issues, issues>>,
                          1, Len(runs), 1, new_content = content)

verify_and_reclean(content, verify_fails, read_fails, write_fails, reverify_fails) ==
    LET issues == verify_file(content, verify_fails) IN
    IF issues = <<>> THEN Recheck(FALSE, content, <<issues>>, 0, 0, 0, FALSE)
    ELSE IF read_fails THEN Recheck(TRUE, content, <<issues>>, 0, 0, 0, FALSE)
    ELSE LET runs == reclean(content)
             new_content == runs[Len(runs)].content
         IN  IF write_fails
             THEN Recheck(TRUE, content, <<issues>>, 1, Len(runs), 0, FALSE)
             ELSE Recheck(FALSE, new_content,
                          <<issues, verify_file(new_content, reverify_fails)>>,
                          1, Len(runs), 1, new_content = content)


(***************************************************************************)
(* The run of main() over a directory of files.                            *)
(***************************************************************************)
\* Most files in CHAPTERS_DIR.
MaxFiles == 2

Name(stem, ext) == [stem |-> stem, ext |-> ext]

\* The file names a directory is drawn from.
FileNames ==
    {Name(<<"7", "-", "b">>, "html"),             \* 7-b.html
     Name(<<"0", "0", "7", "-", "a">>, "html"),   \* 007-a.html
     Name(<<"3", "7", "9", "-", "z">>, "html"),   \* 379-z.html
     Name(<<"5", "-", "a">>, "txt")}              \* 5-a.txt

\* The texts a file holds when the run starts.
CorpusTexts ==
    {<<"body", "nl", "sp", "main", "para">>,
     <<"body", "nl", "close", "nl", "bg", "para">>,
     <<"body", "fixed", "flex", "bar", "close", "close", "label", "close", "main">>,
     <<"bar", "label", "close">>,
     <<"body", "bar", "word", "close">>}

VARIABLES
    dir_exists,        \* chapters_dir.exists()
    disk,              \* file name -> text of the file
    pc,                \* where main() is
    target_files,      \* main's target_files
    idx,               \* position of the running loop in target_files
    results,           \* main's results: file name -> outcome
    needs_attention,   \* main's needs_attention: <<file name, issues>>, in order
    counts,            \* main's counts: outcome -> number
    closing,           \* the closing line of the summary
    original,          \* history: disk as the run found it
    pipeline_calls,    \* history: file -> clean_ambient_completely calls per pass
    file_reads,        \* history: file -> reads by process_file and main
    file_writes,       \* history: file -> writes per pass
    idle_writes,       \* history: files written with the text read from them
    io_errors,         \* history: files one of whose reads or writes raised
    verified,          \* history: file -> what each verify_file call returned
    open_raised,       \* history: which open() of the process_file call just made raises
    text,              \* text specifications: the text given
    cleaned,           \* text specifications: what each pipeline call returned
    report             \* text specifications: what each verify_file call returned

runVars ==
    <<dir_exists, disk, pc, target_files, idx, results, needs_attention, counts,
      closing, original, pipeline_calls, file_reads, file_writes, idle_writes,
      io_errors, verified, open_raised>>
textVars == <<text, cleaned, report>>
vars == <<runVars, textVars>>

\* No open() raises.
NoneRaised == [read |-> FALSE, write |-> FALSE]

\* The empty dict.
Empty == [x \in {} |-> 0]

Range(f) == {f[x] : x \in DOMAIN f}

\* The text variables in a run of main(), which has none.
NoText == text = <<>> /\ cleaned = <<>> /\ report = <<>>

RunInit(files_of) ==
    /\ disk \in files_of
    /\ pc = "start"
    /\ target_files = <<>>
    /\ idx = 0
    /\ results = Empty
    /\ needs_attention = <<>>
    /\ counts = Empty
    /\ closing = "none"
    /\ original = disk
    /\ pipeline_calls = [f \in DOMAIN disk |-> [pass1 |-> 0, pass2 |-> 0]]
    /\ file_reads = [f \in DOMAIN disk |-> 0]
    /\ file_writes = [f \in DOMAIN disk |-> [pass1 |-> 0, pass2 |-> 0]]
    /\ idle_writes = {}
    /\ io_errors = {}
    /\ verified = [f \in DOMAIN disk |-> <<>>]
    /\ open_raised = NoneRaised

Directories ==
    UNION {[files -> CorpusTexts] :
             files \in {F \in SUBSET FileNames : Cardinality(F) <= MaxFiles}}

Init ==
    /\ dir_exists \in BOOLEAN
    /\ RunInit(IF dir_exists THEN Directories ELSE {Empty})
    /\ NoText

\* main() up to its first loop: the directory test, the glob, the selection
\* and the sort.
Start ==
    /\ pc = "start"
    /\ IF ~dir_exists
       THEN /\ pc' = "no_dir"
            /\ UNCHANGED <<target_files, idx>>
       ELSE /\ target_files' \in
                 SortedTargets({f \in GlobHtml(DOMAIN disk) : should_process_file(f)})
            /\ pc' = IF target_files' = <<>> THEN "summary" ELSE "pass1"
            /\ idx' = 1
    /\ UNCHANGED <<dir_exists, disk, results, needs_attention, counts, closing,
                   original, pipeline_calls, file_reads, file_writes, idle_writes,
                   io_errors, verified, open_raised, textVars>>

\* One iteration of the first loop: results[filepath.name] = process_file(filepath).
ProcessFile ==
    /\ pc = "pass1"
    /\ \E read_fails, write_fails \in BOOLEAN :
         \E did \in {process_file(target_files[idx], disk[target_files[idx]],
                                   read_fails, write_fails)} :
         LET f == target_files[idx]
         IN  /\ results' = [g \in DOMAIN results \cup {f} |->
                              IF g = f THEN did.outcome ELSE results[g]]
             /\ disk' = [disk EXCEPT ![f] = did.content]
             /\ pipeline_calls' = [pipeline_calls EXCEPT ![f].pass1 = @ + did.calls]
             /\ file_reads' = [file_reads EXCEPT ![f] = @ + did.reads]
             /\ file_writes' = [file_writes EXCEPT ![f].pass1 = @ + did.writes]
             /\ idle_writes' = IF did.writes > 0 /\ did.content = disk[f]
                               THEN idle_writes \cup {f}
                               ELSE idle_writes
             /\ io_errors' = IF did.outcome = "error" THEN io_errors \cup {f}
                             ELSE io_errors
             /\ open_raised' = [read |-> read_fails, write |-> write_fails]
    /\ IF idx < Len(target_files)
       THEN idx' = idx + 1 /\ pc' = "pass1"
       ELSE idx' = 1 /\ pc' = "pass2"
    /\ UNCHANGED <<dir_exists, target_files, needs_attention, counts, closing,
                   original, verified, textVars>>

\* One iteration of the second loop: verify, and re-clean if there are issues.
\* An exception of main's own read or write ends main.
VerifyAndReclean ==
    /\ pc = "pass2"
    /\ \E verify_fails, read_fails, write_fails, reverify_fails \in BOOLEAN :
         \E did \in {verify_and_reclean(disk[target_files[idx]], verify_fails,
                                         read_fails, write_fails, reverify_fails)} :
         LET f == target_files[idx]
             issues == did.verified[Len(did.verified)]
         IN  /\ disk' = [disk EXCEPT ![f] = did.content]
             /\ needs_attention' =
                  IF ~did.raised /\ Len(did.verified) = 2 /\ issues # <<>>
                  THEN Append(needs_attention, <<f, issues>>)
                  ELSE needs_attention
             /\ pipeline_calls' = [pipeline_calls EXCEPT ![f].pass2 = @ + did.calls]
             /\ file_reads' = [file_reads EXCEPT ![f] = @ + did.reads]
             /\ file_writes' = [file_writes EXCEPT ![f].pass2 = @ + did.writes]
             /\ idle_writes' = IF did.idle THEN idle_writes \cup {f} ELSE idle_writes
             /\ io_errors' =
                  IF did.raised \/ <<"Error reading file">> \in Range(did.verified)
                  THEN io_errors \cup {f}
                  ELSE io_errors
             /\ verified' = [verified EXCEPT ![f] = did.verified]
             /\ IF did.raised THEN pc' = "crashed" /\ idx' = idx
                ELSE IF idx < Len(target_files) THEN pc' = "pass2" /\ idx' = idx + 1
                ELSE pc' = "summary" /\ idx' = idx
    /\ open_raised' = NoneRaised
    /\ UNCHANGED <<dir_exists, target_files, results, counts, closing, original,
                   textVars>>

\* main() from SUMMARY on: the counts and the closing line.
Summary ==
    /\ pc = "summary"
    /\ counts' = [o \in Range(results) |->
                    Cardinality({f \in DOMAIN results : results[f] = o})]
    /\ closing' = IF needs_attention # <<>> THEN "attention" ELSE "all_clean"
    /\ pc' = "done"
    /\ UNCHANGED <<dir_exists, disk, target_files, idx, results, needs_attention,
                   original, pipeline_calls, file_reads, file_writes, idle_writes,
                   io_errors, verified, open_raised, textVars>>

Next == Start \/ ProcessFile \/ VerifyAndReclean \/ Summary

Spec == Init /\ [][Next]_vars


(***************************************************************************)
(* The pipeline and the verifier on their own, on every text of at most    *)
(* MaxTextLen tokens.                                                      *)
(***************************************************************************)
\* Longer texts the text specifications draw as well: those of the corpus,
\* content between a leaf widget and the main-content marker, content after a
\* composite block, and runs of four closing tags after the body tag.
LongTexts ==
    CorpusTexts \cup
    {<<"body", "leaf", "para", "main">>,
     <<"body", "bar", "word", "para", "bg">>,
     <<"fixed", "close", "para", "bg", "close", "close">>,
     <<"body", "close", "close", "close", "close">>,
     <<"body", "nl", "close", "nl", "close", "nl", "close", "nl", "close", "bg", "para">>}

Texts == UNION {[1..n -> Tokens] : n \in 0..MaxTextLen} \cup LongTexts

\* No run of main(): its variables stay as a missing directory leaves them.
NoRun == dir_exists = FALSE /\ RunInit({Empty})

TextInit ==
    /\ NoRun
    /\ text \in Texts
    /\ cleaned = <<>>
    /\ report = <<>>

\* clean_ambient_completely on the text, then on what it returned: the two
\* invocations main() can make on one document.
RunPipeline ==
    /\ Len(cleaned) < 2
    /\ cleaned' = Append(cleaned,
                         clean_ambient_completely(
                             IF cleaned = <<>> THEN text
                             ELSE cleaned[Len(cleaned)].content))
    /\ UNCHANGED <<runVars, text, report>>

SpecClean == TextInit /\ [][RunPipeline]_vars

\* verify_file on a file holding the text.
RunVerifier ==
    /\ report = <<>>
    /\ \E read_fails \in BOOLEAN :
         report' = <<[read_failed |-> read_fails,
                      issues |-> verify_file(text, read_fails)]>>
    /\ UNCHANGED <<runVars, text, cleaned>>

SpecVerify == TextInit /\ [][RunVerifier]_vars


(***************************************************************************)
(* The claims.                                                             *)
(***************************************************************************)
Targets == Range(target_files)

\* The entries of needs_attention that name file f.
AttentionEntries(f) == {i \in DOMAIN needs_attention : needs_attention[i][1] = f}

\* Only whitespace lies strictly between positions i and j of t.
OnlyWhitespaceBetween(t, i, j) == \A k \in (i + 1)..(j - 1) : t[k] \in Whitespace

\* The body-opening tag is followed, with only whitespace between, by one of
\* the given tokens.
BodyFollowedBy(t, tokens) ==
    \E i, j \in 1..Len(t) :
        i < j /\ t[i] = "body" /\ t[j] \in tokens /\ OnlyWhitespaceBetween(t, i, j)

\* C1: whatever reads and writes fail, the failure stays with its document:
\* no exception leaves main() (the run reaches the summary), a document one
\* of whose reads or writes failed has outcome error, and once the loops are
\* over every selected document has been through both of them.
C1_FailuresContained ==
    /\ pc # "crashed"
    /\ \A f \in io_errors : f \in DOMAIN results /\ results[f] = "error"
    /\ pc \in {"summary", "done"} =>
         \A f \in Targets : f \in DOMAIN results /\ verified[f] # <<>>

\* The state half of C2: at most one pipeline call per document and pass,
\* the loop index stays inside target_files, and a document whose second
\* verification still reports issues is in needs_attention.
C2_AtMostTwice ==
    /\ pc \in {"pass1", "pass2"} => idx \in 1..Len(target_files)
    /\ \A f \in DOMAIN disk :
         /\ pipeline_calls[f].pass1 <= 1
         /\ pipeline_calls[f].pass2 <= 1
         /\ (Len(verified[f]) = 2 /\ verified[f][2] # <<>>) =>
              AttentionEntries(f) # {}

\* How far main() is from its end.
Phase(p) ==
    CASE p = "start" -> 4 [] p = "pass1" -> 3 [] p = "pass2" -> 2
      [] p = "summary" -> 1 [] OTHER -> 0

\* The step half of C2: every step moves main() to a later phase or a loop
\* to its next file, over the same target_files.
C2_Progress ==
    \/ Phase(pc') < Phase(pc)
    \/ /\ Phase(pc') = Phase(pc)
       /\ target_files' = target_files
       /\ idx' = idx + 1

\* C2: the pipeline runs at most twice on a document, once per pass; the
\* loops terminate (every step brings the run closer to its end); issues left
\* after the second invocation put the document in needs_attention.
C2_BoundedRetry == [](C2_AtMostTwice) /\ [][C2_Progress]_vars

C2_Witness ==
    /\ pc = "done"
    /\ \E f \in Targets :
         /\ pipeline_calls[f] = [pass1 |-> 1, pass2 |-> 1]
         /\ AttentionEntries(f) # {}

\* C3: no file is written with the text that was read from it (a write
\* happens only when the pipeline changed the text), in either pass.
C3_WrittenOnlyIfChanged == idle_writes = {}

\* The pre-check finds no defect signature: none of the substrings it looks
\* for lies in a token of the text.
PrecheckFindsNothing(t) == \A i \in 1..Len(t) : t[i] \notin {"label", "word", "bar"}

\* C4, as claimed: a selected document that passes the pre-check gets
\* already_clean, and the pipeline never runs on it and it is never written,
\* in the whole run.
C4_NeverTouched ==
    \A f \in DOMAIN results :
        (results[f] # "error" /\ PrecheckFindsNothing(original[f])) =>
            /\ results[f] = "already_clean"
            /\ pipeline_calls[f] = [pass1 |-> 0, pass2 |-> 0]
            /\ file_writes[f] = [pass1 |-> 0, pass2 |-> 0]

\* C4, amended: a selected document that passes the pre-check gets
\* already_clean, and pass 1 neither runs the pipeline on it nor writes it;
\* pass 2 runs the pipeline on it or writes it only after verify_file
\* returned an issue for it.
C4_UntouchedInPass1 ==
    \A f \in DOMAIN results :
        (results[f] # "error" /\ PrecheckFindsNothing(original[f])) =>
            /\ results[f] = "already_clean"
            /\ pipeline_calls[f].pass1 = 0
            /\ file_writes[f].pass1 = 0
            /\ verified[f] = <<>> => disk[f] = original[f]
            /\ (pipeline_calls[f].pass2 > 0 \/ file_writes[f].pass2 > 0) =>
                 (verified[f] # <<>> /\ verified[f][1] # <<>>)

C4_Witness ==
    /\ pc = "done"
    /\ \E f, g \in Targets :
         /\ results[f] = "already_clean" /\ results[g] = "already_clean"
         /\ pipeline_calls[f].pass2 = 0 /\ disk[f] = original[f]
         /\ pipeline_calls[g].pass2 = 1 /\ disk[g] # original[g]

\* File names the selector is tried on beside those of the directory.
SampleNames ==
    {Name(<<"1", "-", "a">>, "html"),             \* 1-a.html
     Name(<<"0", "-", "a">>, "html"),             \* 0-a.html
     Name(<<"3", "7", "8", "-", "z">>, "html"),   \* 378-z.html
     Name(<<"1", "0", "0", "0", "-", "x">>, "html"), \* 1000-x.html
     Name(<<"3", "7", "-", "8">>, "html"),        \* 37-8.html
     Name(<<"1", "2">>, "html"),                  \* 12.html
     Name(<<"3", "a", "-", "b">>, "html"),        \* 3a-b.html
     Name(<<"a", "-", "1">>, "html"),             \* a-1.html
     Name(<<"-", "1", "-", "a">>, "html"),        \* -1-a.html
     Name(<<"7", "-", "b">>, "txt")}              \* 7-b.txt

DigitChar(d) ==
    CASE d = 0 -> "0" [] d = 1 -> "1" [] d = 2 -> "2" [] d = 3 -> "3"
      [] d = 4 -> "4" [] d = 5 -> "5" [] d = 6 -> "6" [] d = 7 -> "7"
      [] d = 8 -> "8" [] d = 9 -> "9"

\* The decimal numeral of n.
RECURSIVE Decimal(_)
Decimal(n) ==
    IF n < 10 THEN <<DigitChar(n)>>
    ELSE Append(Decimal(n \div 10), DigitChar(n % 10))

\* stem is z zeros, then the numeral, then the separator, then anything.
SpellsChapter(stem, z, numeral) ==
    /\ z + Len(numeral) + 1 <= Len(stem)
    /\ \A i \in 1..z : stem[i] = "0"
    /\ \A i \in 1..Len(numeral) : stem[z + i] = numeral[i]
    /\ stem[z + Len(numeral) + 1] = "-"

\* The names in scope: *.html files whose name starts with an integer of
\* START_CHAPTER..END_CHAPTER, leading zeros or not, followed by '-'.
InScopeNames ==
    {f \in FileNames \cup SampleNames :
        /\ f.ext = "html"
        /\ \E n \in START_CHAPTER..END_CHAPTER, z \in 0..Len(f.stem) :
             SpellsChapter(f.stem, z, Decimal(n))}

\* No step of the run has touched file f.
Untouched(f) ==
    /\ disk[f] = original[f]
    /\ file_reads[f] = 0
    /\ file_writes[f] = [pass1 |-> 0, pass2 |-> 0]
    /\ pipeline_calls[f] = [pass1 |-> 0, pass2 |-> 0]
    /\ verified[f] = <<>>
    /\ f \notin DOMAIN results

\* C7: a file is selected iff it is a *.html file whose name starts with an
\* integer of START_CHAPTER..END_CHAPTER followed by '-'; a file that is not
\* selected is never read, cleaned, verified or written.
C7_ScopeCorrect ==
    /\ \A f \in FileNames \cup SampleNames :
         (f \in GlobHtml({f}) /\ should_process_file(f)) <=> f \in InScopeNames
    /\ pc \notin {"start", "no_dir"} => Targets = DOMAIN disk \cap InScopeNames
    /\ \A f \in DOMAIN disk \ InScopeNames : Untouched(f)

C7_Witness ==
    /\ pc = "done"
    /\ \E f \in Targets, g \in DOMAIN disk \ Targets :
         /\ file_writes[f].pass1 = 1
         /\ VerifyText(disk[g]) # <<>>
         /\ Untouched(g)

\* The pipeline ran twice on the text.
CleanedTwice == Len(cleaned) = 2

\* C5: the pipeline is idempotent: run on its own output, it returns that
\* output with changed = False.
C5_Idempotent ==
    CleanedTwice =>
        /\ cleaned[2].content = cleaned[1].content
        /\ ~cleaned[2].modified

\* C6: the issues the verifier reports on the cleaned text are among those it
\* reports on the text given.
C6_NoNewIssue ==
    cleaned # <<>> =>
        Range(VerifyText(cleaned[1].content)) \subseteq Range(VerifyText(text))

\* A whitespace run of t holds three newlines or more.
HasBlankLineRun(t) ==
    \E i, j, k \in 1..Len(t) :
        /\ i < j /\ j < k
        /\ t[i] = "nl" /\ t[j] = "nl" /\ t[k] = "nl"
        /\ \A m \in i..k : t[m] \in Whitespace

\* No defect signature in t: no composite block, no leaf widget, no label
\* span, no flex container, no closing tag after the body tag (and no run of
\* blank lines).
NoDefectSignature(t) ==
    /\ \A i \in 1..Len(t) :
         t[i] \notin {"fixed", "hide", "bar", "leaf", "label", "caps", "flex"}
    /\ ~BodyFollowedBy(t, {"close"})
    /\ ~HasBlankLineRun(t)

\* C8: on a text with no defect signature the pipeline returns the text with
\* changed = False, and the verifier reports nothing on input and output.
C8_CleanStaysAsIs ==
    (cleaned # <<>> /\ NoDefectSignature(text)) =>
        /\ cleaned[1].content = text
        /\ ~cleaned[1].modified
        /\ VerifyText(text) = <<>>
        /\ VerifyText(cleaned[1].content) = <<>>

\* The four signatures of the verifier, and the issue of each.
SignatureOf(issue, t) ==
    CASE issue = "Contains 'Ambient:'" -> \E i \in 1..Len(t) : t[i] = "label"
      [] issue = "Contains animation bars" -> \E i \in 1..Len(t) : t[i] = "bar"
      [] issue = "Has orphaned </div> after body" -> BodyFollowedBy(t, {"close"})
      [] issue = "Has orphaned div after body" -> BodyFollowedBy(t, {"bar", "leaf"})

FourIssues ==
    {"Contains 'Ambient:'", "Contains animation bars",
     "Has orphaned </div> after body", "Has orphaned div after body"}

\* The issues are those of the four signatures that match t, each once.
ExactlyTheMatching(issues, t) ==
    /\ Range(issues) \subseteq FourIssues
    /\ \A issue \in FourIssues : (issue \in Range(issues)) <=> SignatureOf(issue, t)
    /\ Cardinality(Range(issues)) = Len(issues)
    /\ (issues = <<>>) <=> (\A issue \in FourIssues : ~SignatureOf(issue, t))

\* C9, as claimed: for every document verify_file returns exactly the issues
\* of the four signatures that match its text, and nothing else.
C9_FourIssuesOnly ==
    \A i \in DOMAIN report : ExactlyTheMatching(report[i].issues, text)

\* C9, amended: for every document that can be read, verify_file returns
\* exactly the issues of the four signatures that match its text; when the
\* read fails it returns the one issue "Error reading file".
C9_FourIssuesOrReadError ==
    \A i \in DOMAIN report :
        IF report[i].read_failed
        THEN report[i].issues = <<"Error reading file">>
        ELSE ExactlyTheMatching(report[i].issues, text)

C9_Witness ==
    /\ report # <<>>
    /\ ~report[1].read_failed
    /\ Len(report[1].issues) >= 2

\* C10, as claimed: when the run is done, every selected document either
\* holds a text with no verifier issue and is not in needs_attention, or is
\* once in needs_attention with the issues of the text it holds; "All files
\* are clean" is the closing line iff no selected document's text has an issue.
C10_SummaryMatchesTexts ==
    pc = "done" =>
        /\ \A f \in Targets :
             (VerifyText(disk[f]) = <<>> /\ AttentionEntries(f) = {})
             # (/\ Cardinality(AttentionEntries(f)) = 1
                /\ \A i \in AttentionEntries(f) :
                     needs_attention[i][2] = VerifyText(disk[f]))
        /\ (closing = "all_clean") <=> (\A f \in Targets : VerifyText(disk[f]) = <<>>)

\* C10, amended: when the run is done, every selected document either holds
\* a text with no verifier issue and is not in needs_attention, or is once in
\* needs_attention with what verify_file returned after the re-clean: the
\* issues of the text it holds, or "Error reading file" when that read
\* failed. "All files are clean" is the closing line iff needs_attention is
\* empty.
C10_SummaryMatchesRecheck ==
    pc = "done" =>
        /\ \A f \in Targets :
             (VerifyText(disk[f]) = <<>> /\ AttentionEntries(f) = {})
             # (/\ Cardinality(AttentionEntries(f)) = 1
                /\ \A i \in AttentionEntries(f) :
                     /\ needs_attention[i][2] # <<>>
                     /\ needs_attention[i][2] = verified[f][2]
                     /\ needs_attention[i][2] \in
                          {VerifyText(disk[f]), <<"Error reading file">>}
                     /\ needs_attention[i][2] = <<"Error reading file">> =>
                          f \in io_errors)
        /\ (closing = "all_clean") <=> (needs_attention = <<>>)
        /\ Len(needs_attention) = Cardinality({f \in Targets : AttentionEntries(f) # {}})

C10_Witness ==
    /\ pc = "done"
    /\ \E f, g \in Targets :
         /\ AttentionEntries(f) # {}
         /\ VerifyText(disk[f]) # <<>>
         /\ AttentionEntries(g) = {}
         /\ pipeline_calls[g].pass2 = 1

\* The outcomes process_file gives a selected document.
Pass1Outcomes == {"already_clean", "cleaned", "no_changes", "error"}

\* The number the summary prints for outcome o (none printed: 0).
CountOf(o) == IF o \in DOMAIN counts THEN counts[o] ELSE 0

\* The state half of C11: once pass 1 is over every selected document, and
\* no other, has one of the four outcomes; the counts of the summary are the
\* numbers of documents per outcome and add up to the number selected.
C11_OneOutcomeEach ==
    /\ pc \in {"pass2", "summary", "done", "crashed"} =>
         /\ DOMAIN results = Targets
         /\ \A f \in Targets : results[f] \in Pass1Outcomes
    /\ pc = "done" =>
         /\ DOMAIN counts \subseteq Pass1Outcomes
         /\ \A o \in Pass1Outcomes :
              CountOf(o) = Cardinality({f \in Targets : results[f] = o})
         /\ CountOf("already_clean") + CountOf("cleaned") + CountOf("no_changes")
              + CountOf("error") = Len(target_files)

\* The step half of C11: a step of pass 1 gives the document at hand, which
\* had none, its outcome and leaves the other outcomes alone; the outcome is
\* decided by the text the file holds and by the open() calls that raise;
\* the file holds the changed text iff the outcome is cleaned.  A step
\* outside pass 1 changes no outcome.
C11_OutcomeDecided ==
    IF pc # "pass1" THEN results' = results
    ELSE LET f == target_files[idx]
             t == disk[f]
             outcome == results'[f]
             found == ~PrecheckFindsNothing(t)
             changed == clean_ambient_completely(t).modified
             read_ok == ~open_raised'.read
             write_ok == ~open_raised'.write
         IN  /\ f \notin DOMAIN results
             /\ DOMAIN results' = DOMAIN results \cup {f}
             /\ \A g \in DOMAIN results : results'[g] = results[g]
             /\ outcome \in Pass1Outcomes
             /\ outcome = "already_clean" <=> (read_ok /\ ~found)
             /\ outcome = "cleaned" <=> (read_ok /\ found /\ changed /\ write_ok)
             /\ outcome = "no_changes" <=> (read_ok /\ found /\ ~changed)
             /\ outcome = "error" <=> (~read_ok \/ (found /\ changed /\ ~write_ok))
             /\ disk'[f] = IF outcome = "cleaned"
                           THEN clean_ambient_completely(t).content
                           ELSE t
             /\ outcome = "cleaned" => disk'[f] # t

\* C11: every selected document gets exactly one outcome in pass 1:
\* already_clean iff the pre-check finds no defect signature, cleaned iff it
\* finds one and the pipeline changed the text (which was then written),
\* no_changes iff it finds one and the pipeline left the text as it was,
\* error iff reading or writing failed; the counts of the summary add up to
\* the number of selected documents.
C11_OutcomePerDocument == [](C11_OneOutcomeEach) /\ [][C11_OutcomeDecided]_vars

C11_Witness ==
    /\ pc = "done"
    /\ Len(target_files) = 2
    /\ \E f, g \in Targets :
         /\ results[f] = "cleaned" /\ disk[f] # original[f]
         /\ results[g] \in {"no_changes", "error"}
    /\ Cardinality(DOMAIN counts) = 2

\* The tokens that are content: prose, narrative elements, the body tag and
\* the main-content markers.
ContentTokens == {"word", "para", "body", "main", "bg"}

\* The tokens that open a div, and the two that open a composite block.
DivOpenTokens == {"bg", "bar", "leaf", "flex", "fixed", "hide"}
CompositeTokens == {"fixed", "hide"}

\* The content of t from position i on that lies outside every composite
\* block, in order; depth is the number of divs open inside the block at
\* hand (0: outside).
RECURSIVE ContentOutsideBlocks(_, _, _)
ContentOutsideBlocks(t, i, depth) ==
    IF i > Len(t) THEN <<>>
    ELSE IF depth = 0
    THEN IF t[i] \in CompositeTokens THEN ContentOutsideBlocks(t, i + 1, 1)
         ELSE (IF t[i] \in ContentTokens THEN <<t[i]>> ELSE <<>>)
              \o ContentOutsideBlocks(t, i + 1, 0)
    ELSE ContentOutsideBlocks(t, i + 1,
             IF t[i] \in DivOpenTokens THEN depth + 1
             ELSE IF t[i] = "close" THEN depth - 1
             ELSE depth)

\* a[i..] occurs in b[j..], in order.
RECURSIVE OccursInOrder(_, _, _, _)
OccursInOrder(a, i, b, j) ==
    IF i > Len(a) THEN TRUE
    ELSE IF j > Len(b) THEN FALSE
    ELSE IF a[i] = b[j] THEN OccursInOrder(a, i + 1, b, j + 1)
    ELSE OccursInOrder(a, i, b, j + 1)

\* C12: the content of the text given that is no part of a defect signature
\* (prose, the word ambient, elements outside composite blocks) occurs
\* unchanged and in the same order in the text the pipeline returns.
C12_ContentPreserved ==
    cleaned # <<>> =>
        OccursInOrder(ContentOutsideBlocks(text, 1, 0), 1, cleaned[1].content, 1)

\* The body tags of t that a closing tag follows with only whitespace between.
OrphanedBodies(t) ==
    {i \in 1..Len(t) :
        /\ t[i] = "body"
        /\ \E j \in (i + 1)..Len(t) : t[j] = "close" /\ OnlyWhitespaceBetween(t, i, j)}

\* The first of them (0: there is none).
FirstOrphanedBody(t) ==
    IF OrphanedBodies(t) = {} THEN 0
    ELSE CHOOSE i \in OrphanedBodies(t) : \A k \in OrphanedBodies(t) : i <= k

\* The positions of the closing tags of the run that starts after position i:
\* closing tags with only whitespace and closing tags between them and i.
OrphanRun(t, i) ==
    {j \in (i + 1)..Len(t) :
        t[j] = "close" /\ \A k \in (i + 1)..(j - 1) : t[k] \in Whitespace \cup {"close"}}

\* The number of tokens of t that are tok.
Occurrences(t, tok) == Cardinality({i \in 1..Len(t) : t[i] = tok})

\* The largest number of a set of positions, which is not empty.
LastOf(S) == CHOOSE j \in S : \A k \in S : k <= j

\* C13: when n >= 1 closing tags follow the body tag with only whitespace
\* between, the text the pipeline returns keeps the body tag and has no
\* closing tag after it, all n are gone, and the content after them is
\* there, whether a main-content marker follows or not.  (A body tag inside a
\* composite block goes with the block: no block opens before the body tag.)
C13_OrphansRemoved ==
    (/\ cleaned # <<>>
     /\ FirstOrphanedBody(text) # 0
     /\ \A k \in 1..FirstOrphanedBody(text) : text[k] \notin CompositeTokens) =>
        LET i == FirstOrphanedBody(text)
            run == OrphanRun(text, i)
            out == cleaned[1].content
        IN  /\ Occurrences(out, "body") = Occurrences(text, "body")
            /\ ~BodyFollowedBy(out, {"close"})
            /\ Occurrences(out, "close") <= Occurrences(text, "close") - Cardinality(run)
            /\ OccursInOrder(
                   ContentOutsideBlocks(SubSeq(text, LastOf(run) + 1, Len(text)), 1, 0),
                   1, out, 1)

====
